---- MODULE Spec2Model ----
(***************************************************************************)
(* The loader: a ledger of accounts under concurrent transfers             *)
(* (callTransfer / transferFunds run through crdbpgx.ExecuteTx) and the    *)
(* fraud pipeline fed by the HTTP endpoint (ServeHTTP -> blockAccount ->   *)
(* isAnomaly, needToBlockAccount), against the tables of init.sql.         *)
(*                                                                         *)
(* The store is serializable and signals retryable conflicts; ExecuteTx    *)
(* re-runs the closure on that signal.  A transaction attempt is modelled  *)
(* in two steps: the run of its closure (reads, buffered writes) and its   *)
(* commit.  A transaction whose rows were changed by another commit since  *)
(* its reads is stale: the store refuses its commit.                       *)
(***************************************************************************)
EXTENDS Integers, Sequences, FiniteSets, Bags, TLC

\* ---- bounds of the model
NumAccounts == 2
NumWorkers == 2
MaxTransfers == 2
MaxBody == 3
MaxTasks == 2
MaxRunTransfers == 1

\* ---- constants of the program
minAmount == 0
maxAmount == 1000
minBalance == 10
maxBalance == 1000000
blockThreshold == 20
reason == "Suspicious activity detected!"
notAnomaly == "Ok"
warning == "Warning"
alert == "Alert"

Accounts == 1..NumAccounts

\* The indices of accountList, 0 .. *accounts - 1, and the value of an index
\* that nothing was stored for.
Indices == 0..(NumAccounts - 1)
NoAccount == 0

\* The invocations of ExecuteTx(transferFunds) that may be in flight at once
\* on the one store.  main starts a single callTransfer loop; the claims
\* about the ledger speak of transfers running concurrently, so the model
\* runs NumWorkers such loops, and the counters are their common counters.
Workers == 1..NumWorkers

\* randomize(min, max) draws from min..max-1; the model samples that range.
randomize(min, max, samples) == {v \in samples : min <= v /\ v < max}

Amounts == randomize(minAmount, maxAmount, {0, 500})
Balances == randomize(minBalance, maxBalance, {10, 500})

NoRow == "no rows in result set"
NoTx == [from |-> 0, to |-> 0, amount |-> 0]
NoRequest == [body |-> <<>>, serving |-> FALSE]

\* An error of the store or the driver other than "no rows in result set".
StoreError == "store error"

\* callTransfer has not logged its counters.
NoReport == [transfers |-> -1, suspiciousTransfers |-> -1]

\* No needToBlockAccount has returned yet.
NoVerdict == "none"

VARIABLES
    accounts,            \* table accounts: id -> balance
    transfersTable,      \* table transfers: sequence of rows, id = position
    blocked_accounts,    \* table blocked_accounts: source -> reason, or NoRow
    provisioned,         \* the balances createAccounts inserted
    transfers,           \* the process-wide counter of transfers
    suspiciousTransfers, \* the process-wide counter of refused transfers
    pc,                  \* per worker: where its ExecuteTx invocation stands
    req,                 \* per worker: the (from, to, amount) of its invocation
    stale,               \* per worker: its transaction's rows changed under it
    outcome,             \* how the invocation that ended last ended
    issued,              \* invocations started so far
    anomalies,           \* table anomalies: its rows, oldest first
    tasks,               \* the blockAccount goroutines in flight (a bag)
    request,             \* the request ServeHTTP is handling, or NoRequest
    classified,          \* ids whose classification ran once / more than once
    aborted,             \* a request has returned at a malformed record
    verdict,             \* the error the needToBlockAccount that ended last
                         \* returned to blockAccount ("" is nil), or NoVerdict
    accountList,         \* the sync.Map: index -> account id, or NoAccount
    phase,               \* where main is: "provisioning", "running", "fatal"
    ctxDone,             \* the context of run has expired or was cancelled
    reported             \* the counters callTransfer logged when it ended

runVars == <<accountList, phase, ctxDone, reported>>

workloadVars == <<accounts, transfersTable, provisioned, transfers,
                  suspiciousTransfers, pc, req, outcome, issued,
                  accountList, phase, ctxDone, reported>>

pipelineVars == <<anomalies, tasks, request, classified, aborted, verdict>>

vars == <<accounts, transfersTable, blocked_accounts, provisioned, transfers,
          suspiciousTransfers, pc, req, stale, outcome, issued, anomalies,
          tasks, request, classified, aborted, verdict, accountList, phase,
          ctxDone, reported>>

\* ---- the tables of init.sql and the columns a statement may name
Columns ==
    [accounts |-> {"id", "balance"},
     transfers |-> {"id", "source", "destination", "amount", "ts"},
     anomalies |-> {"id", "source", "destination", "transfer_id", "anomaly_level"},
     blocked_accounts |-> {"source", "reason"}]

\* A statement that names a column its table lacks is refused by the store.
StatementOk(table, cols) == cols \subseteq Columns[table]

\* ---- transferFunds, the closure ExecuteTx runs

\* SELECT reason FROM blocked_accounts WHERE source = $1, scanned into a
\* NullString: the empty string when there is no row.
isAuthorized(from) ==
    IF blocked_accounts[from] = NoRow THEN "" ELSE blocked_accounts[from]

\* A transferFunds that never consults the block entry.
RefusedNever(from) == FALSE

Refused(from) == isAuthorized(from) # ""

\* A refusal that is not counted.
CountSuspiciousLost(n) == n

\* suspiciousTransfers++ on a refusal.
CountSuspicious(n) == n + 1

\* A transferFunds without the balance check.
InsufficientFundsUnchecked(fromBalance, amount) == FALSE

InsufficientFunds(fromBalance, amount) == fromBalance < amount

Debit(tbl, from, amount) == [tbl EXCEPT ![from] = @ - amount]
\* A credit that does not reach the destination.
CreditLost(tbl, to, amount) == tbl

Credit(tbl, to, amount) == [tbl EXCEPT ![to] = @ + amount]

\* The two UPDATEs, the second reading the first one's write.
ApplyTransfer(tbl, r) == Credit(Debit(tbl, r.from, r.amount), r.to, r.amount)

TransferRow(r) == [source |-> r.from, destination |-> r.to, amount |-> r.amount]

\* A store that detects no conflict between transactions.
ConflictUndetected(w, rows) == {}

\* The transactions in flight whose rows a commit on the accounts in `rows` changes.
Conflicting(w, rows) ==
    {v \in Workers \ {w} :
        pc[v] = "commit" /\ {req[v].from, req[v].to} \cap rows # {}}

\* A loop that does not look at its context.
CancelledNever == FALSE

\* select case <-ctx.Done() at the head of callTransfer's loop.
Cancelled == ctxDone

\* callTransfer: one turn of the loop that the select lets through loads
\* source and destination from accountList, draws the amount and hands the
\* closure to ExecuteTx; a failed load ends the loop.  Idle workers do not
\* differ, so the one of least index takes the turn.
CallTransfer(w) ==
    /\ phase = "running"
    /\ pc[w] = "idle"
    /\ \A v \in Workers : pc[v] = "idle" => w <= v
    /\ ~Cancelled
    /\ issued < MaxTransfers
    /\ issued' = issued + 1
    /\ \E srcid \in Indices, dstid \in Indices, amount \in Amounts :
         IF accountList[srcid] = NoAccount \/ accountList[dstid] = NoAccount
         THEN /\ pc' = [pc EXCEPT ![w] = "not found"]
              /\ UNCHANGED req
         ELSE /\ req' = [req EXCEPT ![w] = [from |-> accountList[srcid],
                                            to |-> accountList[dstid],
                                            amount |-> amount]]
              /\ pc' = [pc EXCEPT ![w] = "run"]
    /\ UNCHANGED <<accounts, transfersTable, blocked_accounts, provisioned,
                   transfers, suspiciousTransfers, stale, outcome>>
    /\ UNCHANGED runVars
    /\ UNCHANGED pipelineVars

\* One run of the closure, transferFunds: the block entry of the source is
\* read, then its balance; a refusal returns an error, on which ExecuteTx
\* rolls back and gives up.  Otherwise the two UPDATEs and the INSERT are
\* buffered in the transaction, transfers++ runs and the closure returns
\* nil: the commit is still to come.  The statements of one transaction see
\* one snapshot of the store, so the run is one step.
RunClosure(w) ==
    /\ pc[w] = "run"
    /\ IF Refused(req[w].from)
       THEN /\ suspiciousTransfers' = CountSuspicious(suspiciousTransfers)
            /\ outcome' = isAuthorized(req[w].from)
            /\ pc' = [pc EXCEPT ![w] = "idle"]
            /\ req' = [req EXCEPT ![w] = NoTx]
            /\ UNCHANGED transfers
       ELSE IF InsufficientFunds(accounts[req[w].from], req[w].amount)
       THEN /\ outcome' = "insufficent funds"
            /\ pc' = [pc EXCEPT ![w] = "idle"]
            /\ req' = [req EXCEPT ![w] = NoTx]
            /\ UNCHANGED <<transfers, suspiciousTransfers>>
       ELSE /\ transfers' = transfers + 1
            /\ pc' = [pc EXCEPT ![w] = "commit"]
            /\ UNCHANGED <<req, suspiciousTransfers, outcome>>
    /\ UNCHANGED <<accounts, transfersTable, blocked_accounts, provisioned,
                   stale, issued>>
    /\ UNCHANGED runVars
    /\ UNCHANGED pipelineVars

\* An ExecuteTx that commits the statements of the aborted attempt again.
RetryFromCommit == "commit"

\* Where ExecuteTx resumes on a retryable conflict: at the closure's start.
RetryFrom == "run"

\* The store signals a retryable conflict to a stale transaction at its
\* commit; ExecuteTx rolls back and re-runs the closure from its first
\* statement, against the store as it then is.
Restart(w) ==
    /\ pc[w] = "commit"
    /\ stale[w]
    /\ pc' = [pc EXCEPT ![w] = RetryFrom]
    /\ stale' = [stale EXCEPT ![w] = FALSE]
    /\ UNCHANGED <<accounts, transfersTable, blocked_accounts, provisioned,
                   transfers, suspiciousTransfers, req, outcome, issued>>
    /\ UNCHANGED runVars
    /\ UNCHANGED pipelineVars

\* The commit of a transaction no other commit has invalidated.
CommitStep(w) ==
    /\ pc[w] = "commit"
    /\ ~stale[w]
    /\ accounts' = ApplyTransfer(accounts, req[w])
    /\ transfersTable' = Append(transfersTable, TransferRow(req[w]))
    /\ stale' = [v \in Workers |->
                   stale[v] \/ v \in Conflicting(w, {req[w].from, req[w].to})]
    /\ outcome' = "done"
    /\ pc' = [pc EXCEPT ![w] = "idle"]
    /\ req' = [req EXCEPT ![w] = NoTx]
    /\ UNCHANGED <<blocked_accounts, provisioned, transfers,
                   suspiciousTransfers, issued>>
    /\ UNCHANGED runVars
    /\ UNCHANGED pipelineVars

\* The commit fails for a reason that is not a conflict (the store cannot
\* be reached): ExecuteTx returns the error and callTransfer logs it.
CommitFail(w) ==
    /\ pc[w] = "commit"
    /\ outcome' = "error"
    /\ pc' = [pc EXCEPT ![w] = "idle"]
    /\ stale' = [stale EXCEPT ![w] = FALSE]
    /\ req' = [req EXCEPT ![w] = NoTx]
    /\ UNCHANGED <<accounts, transfersTable, blocked_accounts, provisioned,
                   transfers, suspiciousTransfers, issued>>
    /\ UNCHANGED runVars
    /\ UNCHANGED pipelineVars

\* blocked_accounts has ttl_expire_after: the store's TTL job deletes a row.
ExpireBlock(a) ==
    /\ blocked_accounts[a] # NoRow
    /\ blocked_accounts' = [blocked_accounts EXCEPT ![a] = NoRow]
    /\ stale' = [v \in Workers |->
                   stale[v] \/ (pc[v] = "commit" /\ req[v].from = a)]
    /\ UNCHANGED <<accounts, transfersTable, provisioned, transfers,
                   suspiciousTransfers, pc, req, outcome, issued>>
    /\ UNCHANGED runVars
    /\ UNCHANGED pipelineVars

\* What blocked_accounts may hold when the run starts: nothing, or a block
\* entry written with the program's reason.  Accounts are interchangeable, so
\* the entry is put on the first.
StoredBlocks ==
    {[a \in Accounts |-> NoRow], [a \in Accounts |-> IF a = 1 THEN reason ELSE NoRow]}

\* After clean and createAccounts, as run starts: every account holds its
\* provisioned balance and accountList maps every index; blocked_accounts, which clean does not truncate, holds what the
\* store had.
Init ==
    /\ provisioned \in [Accounts -> Balances]
    /\ accounts = provisioned
    /\ transfersTable = <<>>
    /\ blocked_accounts \in StoredBlocks
    /\ transfers = 0
    /\ suspiciousTransfers = 0
    /\ pc = [w \in Workers |-> "idle"]
    /\ req = [w \in Workers |-> NoTx]
    /\ stale = [w \in Workers |-> FALSE]
    /\ outcome = "none"
    /\ issued = 0
    /\ anomalies = <<>>
    /\ tasks = EmptyBag
    /\ request = NoRequest
    /\ classified = [once |-> {}, again |-> {}]
    /\ aborted = FALSE
    /\ verdict = NoVerdict
    /\ accountList = [i \in Indices |-> i + 1]
    /\ phase = "running"
    /\ ctxDone = FALSE
    /\ reported = NoReport

Next ==
    \/ \E w \in Workers : CallTransfer(w)
    \/ \E w \in Workers : RunClosure(w)
    \/ \E w \in Workers : Restart(w)
    \/ \E w \in Workers : CommitStep(w)
    \/ \E w \in Workers : CommitFail(w)
    \/ \E a \in Accounts : ExpireBlock(a)

Spec == Init /\ [][Next]_vars

\* ------------------------------------------------------------------------
\* The run of main: createAccounts, then the one callTransfer loop of run
\* until its context is done
\* ------------------------------------------------------------------------

\* uuid.New(): an id no account has yet.  Unused ids do not differ, so the
\* least one is taken.
NewId ==
    CHOOSE id \in Accounts \ DOMAIN accounts :
        \A other \in Accounts \ DOMAIN accounts : id <= other

\* A createAccounts that does not wait for its goroutines.
WaitGroupNotWaited == TRUE

\* wg.Wait() returns: every goroutine of createAccounts has stored its
\* account and called wg.Done.
WaitGroupDone == \A i \in Indices : accountList[i] # NoAccount

\* The goroutine of createAccounts for index i: the account is inserted with
\* a drawn balance and its id stored under the index.
InsertAccount(i) ==
    /\ phase # "fatal"
    /\ accountList[i] = NoAccount
    /\ \E balance \in Balances :
         accounts' = [a \in DOMAIN accounts \cup {NewId} |->
                        IF a = NewId THEN balance ELSE accounts[a]]
    /\ provisioned' = accounts'
    /\ accountList' = [accountList EXCEPT ![i] = NewId]
    /\ UNCHANGED <<transfersTable, blocked_accounts, transfers,
                   suspiciousTransfers, pc, req, stale, outcome, issued,
                   phase, ctxDone, reported>>
    /\ UNCHANGED pipelineVars

\* The insert of the goroutine for index i fails: log.Fatal ends the process.
InsertFatal(i) ==
    /\ phase # "fatal"
    /\ accountList[i] = NoAccount
    /\ phase' = "fatal"
    /\ UNCHANGED <<accounts, transfersTable, blocked_accounts, provisioned,
                   transfers, suspiciousTransfers, pc, req, stale, outcome,
                   issued, accountList, ctxDone, reported>>
    /\ UNCHANGED pipelineVars

\* createAccounts returns and main starts run, which starts callTransfer.
StartRun ==
    /\ phase = "provisioning"
    /\ WaitGroupDone
    /\ phase' = "running"
    /\ UNCHANGED <<accounts, transfersTable, blocked_accounts, provisioned,
                   transfers, suspiciousTransfers, pc, req, stale, outcome,
                   issued, accountList, ctxDone, reported>>
    /\ UNCHANGED pipelineVars

\* The duration of run has passed: its context is done.
Deadline ==
    /\ phase = "running"
    /\ ~ctxDone
    /\ ctxDone' = TRUE
    /\ UNCHANGED <<accounts, transfersTable, blocked_accounts, provisioned,
                   transfers, suspiciousTransfers, pc, req, stale, outcome,
                   issued, accountList, phase, reported>>
    /\ UNCHANGED pipelineVars

\* callTransfer at the head of its loop finds the context done: it logs the
\* two counters and returns.
Stop(w) ==
    /\ phase = "running"
    /\ pc[w] = "idle"
    /\ Cancelled
    /\ pc' = [pc EXCEPT ![w] = "stopped"]
    /\ reported' = [transfers |-> transfers,
                    suspiciousTransfers |-> suspiciousTransfers]
    /\ UNCHANGED <<accounts, transfersTable, blocked_accounts, provisioned,
                   transfers, suspiciousTransfers, req, stale, outcome,
                   issued, accountList, phase, ctxDone>>
    /\ UNCHANGED pipelineVars

\* The process as main starts it: nothing provisioned, no block entry.
InitRun ==
    /\ provisioned = <<>>
    /\ accounts = <<>>
    /\ transfersTable = <<>>
    /\ blocked_accounts = [a \in Accounts |-> NoRow]
    /\ transfers = 0
    /\ suspiciousTransfers = 0
    /\ pc = [w \in Workers |-> "idle"]
    /\ req = [w \in Workers |-> NoTx]
    /\ stale = [w \in Workers |-> FALSE]
    /\ outcome = "none"
    /\ issued = 0
    /\ anomalies = <<>>
    /\ tasks = EmptyBag
    /\ request = NoRequest
    /\ classified = [once |-> {}, again |-> {}]
    /\ aborted = FALSE
    /\ verdict = NoVerdict
    /\ accountList = [i \in Indices |-> NoAccount]
    /\ phase = "provisioning"
    /\ ctxDone = FALSE
    /\ reported = NoReport

\* run starts one callTransfer: worker 1.  Nothing else writes the accounts,
\* so no attempt of its is aborted on a conflict.  The loop takes at most
\* MaxRunTransfers turns before its context is done.
NextRun ==
    \/ \E i \in Indices : InsertAccount(i)
    \/ \E i \in Indices : InsertFatal(i)
    \/ StartRun
    \/ (issued < MaxRunTransfers /\ CallTransfer(1))
    \/ RunClosure(1)
    \/ CommitStep(1)
    \/ CommitFail(1)
    \/ Deadline
    \/ Stop(1)

\* The timer of the context fires, the goroutine of callTransfer is
\* scheduled, and a call of ExecuteTx returns.
SpecRun ==
    /\ InitRun
    /\ [][NextRun]_vars
    /\ WF_vars(Deadline)
    /\ WF_vars(Stop(1))
    /\ WF_vars(RunClosure(1))
    /\ WF_vars(CommitStep(1) \/ CommitFail(1))

\* ------------------------------------------------------------------------
\* The ingestion endpoint and the fraud pipeline
\* ------------------------------------------------------------------------

\* A request body is a sequence of tokens: the newline byte, bytes that are
\* no JSON, or the JSON object the change feed emits for transfer `id`.
NL == [kind |-> "nl", id |-> 0]
Junk == [kind |-> "junk", id |-> 0]
Json(i) == [kind |-> "json", id |-> i]

\* The ids an event may carry: that of the first transfer, which the table
\* may hold or not (clean truncates transfers, the feed may deliver again),
\* and those of the transfers there are.
Ids == {1} \cup DOMAIN transfersTable

Tokens == {NL, Junk} \cup {Json(i) : i \in Ids}

Bodies == UNION {[1..n -> Tokens] : n \in 0..MaxBody}

\* The Message of the event for transfer i: SELECT id, source, destination.
Message(i) ==
    IF i \in DOMAIN transfersTable
    THEN [id |-> i, source |-> transfersTable[i].source,
          destination |-> transfersTable[i].destination]
    ELSE [id |-> i, source |-> 1, destination |-> 2]

\* bytes.Split(buf, newLine): the pieces between newlines, empty ones kept.
RECURSIVE Split(_)
Split(buf) ==
    IF \A i \in DOMAIN buf : buf[i] # NL
    THEN <<buf>>
    ELSE LET i == CHOOSE j \in DOMAIN buf :
                     buf[j] = NL /\ \A k \in 1..(j - 1) : buf[k] # NL
         IN <<SubSeq(buf, 1, i - 1)>> \o Split(SubSeq(buf, i + 1, Len(buf)))

\* json.Unmarshal(v, &m): an error unless v is exactly one JSON object.
Unmarshal(v) ==
    IF Len(v) = 1 /\ v[1].kind = "json"
    THEN [err |-> FALSE, m |-> Message(v[1].id)]
    ELSE [err |-> TRUE, m |-> [id |-> 0, source |-> 0, destination |-> 0]]

\* A handler that skips a record it cannot parse and goes on.
RECURSIVE ServeLoopSkipping(_, _)
ServeLoopSkipping(ms, i) ==
    IF i > Len(ms) THEN <<>>
    ELSE IF Unmarshal(ms[i]).err THEN ServeLoopSkipping(ms, i + 1)
    ELSE <<Unmarshal(ms[i]).m>> \o ServeLoopSkipping(ms, i + 1)

\* The loop of ServeHTTP from record i on: the messages it starts a
\* blockAccount goroutine for; it returns at the first parse error.
RECURSIVE ServeLoop(_, _)
ServeLoop(ms, i) ==
    IF i > Len(ms) THEN <<>>
    ELSE IF Unmarshal(ms[i]).err THEN <<>>
    ELSE <<Unmarshal(ms[i]).m>> \o ServeLoop(ms, i + 1)

\* The goroutine of blockAccount for message m, before its first transaction.
Classifying(m) == [m |-> m, pc |-> "classify", lookup |-> "", err |-> ""]

RECURSIVE Goroutines(_)
Goroutines(ms) ==
    IF ms = <<>> THEN EmptyBag
    ELSE SetToBag({Classifying(Head(ms))}) (+) Goroutines(Tail(ms))

\* ServeHTTP: reads the body, splits it, and starts one goroutine per record
\* up to the first one that does not parse.
ServeHTTP(body) ==
    /\ ~request.serving
    /\ BagCardinality(tasks) + Len(ServeLoop(Split(body), 1)) <= MaxTasks
    /\ request' = [body |-> body, serving |-> TRUE]
    /\ tasks' = tasks (+) Goroutines(ServeLoop(Split(body), 1))
    /\ UNCHANGED <<anomalies, classified, aborted, verdict, blocked_accounts, stale>>
    /\ UNCHANGED workloadVars

\* The handler returns, at the end of the records or at a parse error; the
\* goroutines it started are not waited for.
ReturnHTTP ==
    /\ request.serving
    /\ request' = NoRequest
    /\ aborted' = (aborted \/ Len(ServeLoop(Split(request.body), 1)) < Len(Split(request.body)))
    /\ UNCHANGED <<anomalies, tasks, classified, verdict, blocked_accounts, stale>>
    /\ UNCHANGED workloadVars

\* anomalyLevel(id) of init.sql: the level of the transfer's amount; no
\* value when no transfer has that id.
anomalyLevel(id) ==
    IF id \notin DOMAIN transfersTable THEN NoRow
    ELSE IF transfersTable[id].amount < 500 THEN notAnomaly
    ELSE IF transfersTable[id].amount < 1000 THEN warning
    ELSE alert

\* The columns the INSERT of isAnomaly names.
AnomalyInsertNamingSchema == {"source", "destination", "anomaly_level"}

AnomalyInsertColumns == {"source", "destination", "level"}

\* The columns the SELECT of needToBlockAccount names, in table transfers.
BlockQueryColumns == {"anomaly_level", "source"}

\* The error QueryRow(...).Scan may return in isAnomaly for message m: none,
\* "no rows in result set" when the lookup finds nothing for the id, or a
\* failure of the store.
LookupErrors(m) ==
    IF anomalyLevel(m.id) = NoRow THEN {NoRow, StoreError} ELSE {"", StoreError}

\* What isAnomaly returns on the lookup's error: nil ("") on every error
\* but "no rows in result set", which it returns.
isAnomalyReturn(err) ==
    IF err # ""
    THEN (IF err # NoRow THEN "" ELSE err)
    ELSE ""

\* isAnomaly under ExecuteTx: the table anomalies after it.  The level is
\* looked up; a level other than "Ok" is inserted when the store accepts
\* the INSERT, and otherwise the error is logged and nothing is written.
isAnomaly(m) ==
    IF anomalyLevel(m.id) \in {NoRow, notAnomaly} THEN anomalies
    ELSE IF StatementOk("anomalies", AnomalyInsertColumns)
    THEN Append(anomalies, [source |-> m.source, destination |-> m.destination,
                            level |-> anomalyLevel(m.id)])
    ELSE anomalies

LevelOf(row) == IF "level" \in DOMAIN row THEN row.level ELSE ""

\* The loop over the rows of needToBlockAccount's query: rate += count for
\* "Warning", rate += 5 * count for "Alert".
RECURSIVE Rate(_, _)
Rate(rows, source) ==
    IF rows = <<>> THEN 0
    ELSE (IF Head(rows).source # source THEN 0
          ELSE IF LevelOf(Head(rows)) = warning THEN 1
          ELSE IF LevelOf(Head(rows)) = alert THEN 5
          ELSE 0) + Rate(Tail(rows), source)

\* A needToBlockAccount that inserts the block entry whatever the weight.
needToBlockAccountAlways(source) == [blocked_accounts EXCEPT ![source] = reason]

\* needToBlockAccount under ExecuteTx: the table blocked_accounts after it.
\* The SELECT reads table transfers; an error of the query other than "no
\* rows" makes the function return nil at once.  Otherwise a rate at or over
\* the threshold inserts the block entry, which the primary key refuses when
\* the source already has one.
needToBlockAccount(source) ==
    IF ~StatementOk("transfers", BlockQueryColumns) THEN blocked_accounts
    ELSE IF Rate(transfersTable, source) >= blockThreshold
            /\ blocked_accounts[source] = NoRow
    THEN [blocked_accounts EXCEPT ![source] = reason]
    ELSE blocked_accounts

\* A needToBlockAccount whose query sums the source's anomalies: its INSERT
\* meets the block entry the source already has.
needToBlockAccountErrOnInsert(source) ==
    IF Rate(anomalies, source) >= blockThreshold /\ blocked_accounts[source] # NoRow
    THEN "duplicate key"
    ELSE ""

\* What needToBlockAccount returns: nil ("") when its query is refused, the
\* error of the INSERT when the source already has a block entry.
needToBlockAccountErr(source) ==
    IF ~StatementOk("transfers", BlockQueryColumns) THEN ""
    ELSE IF Rate(transfersTable, source) >= blockThreshold
            /\ blocked_accounts[source] # NoRow
    THEN "duplicate key"
    ELSE ""

\* The goroutine between its two transactions: it holds the error of the
\* lookup and err, the error isAnomaly returned to ExecuteTx.
Escalating(m, lookup) ==
    [m |-> m, pc |-> "escalate", lookup |-> lookup, err |-> isAnomalyReturn(lookup)]

\* A blockAccount that returns when its first transaction ended in an error.
AfterClassifyStopOnError(m, lookup) ==
    IF isAnomalyReturn(lookup) # "" THEN EmptyBag
    ELSE SetToBag({Escalating(m, lookup)})

\* blockAccount after its first transaction: the error is logged and the
\* goroutine goes on to the second, whatever the error.
AfterClassify(m, lookup) == SetToBag({Escalating(m, lookup)})

\* blockAccount, first transaction: isAnomaly.
Classify(m) ==
    /\ BagIn(Classifying(m), tasks)
    /\ \E lookup \in LookupErrors(m) :
         /\ anomalies' = IF lookup = "" THEN isAnomaly(m) ELSE anomalies
         /\ tasks' = (tasks (-) SetToBag({Classifying(m)})) (+) AfterClassify(m, lookup)
    /\ classified' = [once |-> classified.once \cup {m.id},
                      again |-> classified.again \cup (classified.once \cap {m.id})]
    /\ UNCHANGED <<request, aborted, verdict, blocked_accounts, stale>>
    /\ UNCHANGED workloadVars

\* blockAccount, second transaction: needToBlockAccount; the goroutine ends.
Escalate(m) ==
    \E lookup \in LookupErrors(m) :
        /\ BagIn(Escalating(m, lookup), tasks)
        /\ blocked_accounts' = needToBlockAccount(m.source)
        /\ verdict' = needToBlockAccountErr(m.source)
        /\ tasks' = tasks (-) SetToBag({Escalating(m, lookup)})
        /\ UNCHANGED <<anomalies, request, classified, aborted, stale>>
    /\ UNCHANGED workloadVars

\* anomalies has ttl_expire_after: the oldest row expires first.
ExpireAnomaly ==
    /\ anomalies # <<>>
    /\ anomalies' = Tail(anomalies)
    /\ UNCHANGED <<tasks, request, classified, aborted, verdict, blocked_accounts, stale>>
    /\ UNCHANGED workloadVars

AnomalyRow(s, d, l) == [source |-> s, destination |-> d, level |-> l]

\* Rows the table anomalies may hold, oldest first: for account 1 five
\* "Warning" and three "Alert", and one "Alert" for account 2.
StoredAnomalies ==
    <<AnomalyRow(1, 2, warning), AnomalyRow(1, 2, alert), AnomalyRow(1, 2, alert),
      AnomalyRow(1, 2, alert), AnomalyRow(1, 2, warning), AnomalyRow(1, 2, warning),
      AnomalyRow(1, 2, warning), AnomalyRow(1, 2, warning), AnomalyRow(2, 1, alert)>>

RECURSIVE ApplyAll(_, _)
ApplyAll(tbl, rs) ==
    IF rs = <<>> THEN tbl ELSE ApplyAll(ApplyTransfer(tbl, Head(rs)), Tail(rs))

RECURSIVE TransferRows(_)
TransferRows(rs) ==
    IF rs = <<>> THEN <<>> ELSE <<TransferRow(Head(rs))>> \o TransferRows(Tail(rs))

\* The transfers committed before the pipeline is looked at: none, or one
\* from account 1 to account 2, of any amount.
CommittedRuns == {<<>>} \cup {<<[from |-> 1, to |-> 2, amount |-> x]>> : x \in Amounts}

\* The pipeline's starting point: the ledger after those transfers, and the
\* store's tables anomalies and blocked_accounts holding rows or not.
InitIngest ==
    /\ provisioned = [a \in Accounts |-> 500]
    /\ \E rs \in CommittedRuns :
         /\ accounts = ApplyAll(provisioned, rs)
         /\ transfersTable = TransferRows(rs)
         /\ transfers = Len(rs)
         /\ issued = Len(rs)
    /\ blocked_accounts \in StoredBlocks
    /\ suspiciousTransfers = 0
    /\ pc = [w \in Workers |-> "idle"]
    /\ req = [w \in Workers |-> NoTx]
    /\ stale = [w \in Workers |-> FALSE]
    /\ outcome = "none"
    /\ anomalies \in {<<>>, StoredAnomalies}
    /\ tasks = EmptyBag
    /\ request = NoRequest
    /\ classified = [once |-> {}, again |-> {}]
    /\ aborted = FALSE
    /\ verdict = NoVerdict
    /\ accountList = [i \in Indices |-> i + 1]
    /\ phase = "running"
    /\ ctxDone = FALSE
    /\ reported = NoReport

Events == {Message(i) : i \in Ids}

NextIngest ==
    \/ \E body \in Bodies : ServeHTTP(body)
    \/ ReturnHTTP
    \/ \E m \in Events : Classify(m)
    \/ \E m \in Events : Escalate(m)
    \/ ExpireAnomaly
    \/ \E a \in Accounts : ExpireBlock(a)

SpecIngest == InitIngest /\ [][NextIngest]_vars

\* ------------------------------------------------------------------------
\* The claims about the ledger under transfers (specification Spec)
\* ------------------------------------------------------------------------

\* The sum of the balances of a table of accounts.
RECURSIVE SumOver(_, _)
SumOver(f, S) ==
    IF S = {} THEN 0
    ELSE LET a == CHOOSE x \in S : TRUE IN f[a] + SumOver(f, S \ {a})

TotalBalance(tbl) == SumOver(tbl, DOMAIN tbl)

\* No invocation is in flight.
Quiescent == \A w \in Workers : pc[w] = "idle"

\* Worker w runs its closure in this step.
ClosureRuns(w) == pc[w] = "run" /\ pc'[w] # "run"

\* Worker w's transaction commits in this step.
Commits(w) == pc[w] = "commit" /\ pc'[w] = "idle" /\ outcome' = "done"
                /\ Len(transfersTable') = Len(transfersTable) + 1

\* C1: in every reachable state the sum of all balances equals the sum
\* fixed at provisioning, whatever transfers committed, were refused or
\* were retried.
C1_Conservation == TotalBalance(accounts) = TotalBalance(provisioned)

\* C1 witness: two transfers have committed, funds have moved, and one of
\* the two was re-run after a conflict.
C1_Witness ==
    /\ accounts # provisioned
    /\ Len(transfersTable) = 2
    /\ transfers > Len(transfersTable)
    /\ Quiescent

\* C2: in every reachable state every balance is >= 0.
C2_NonNegative == \A a \in Accounts : accounts[a] >= 0

\* C2 witness: two transfers debiting the same account were in flight at
\* the same time, one of them was re-run, and the account is drained to 0.
C2_Witness ==
    /\ \E a \in Accounts : accounts[a] = 0 /\ provisioned[a] > 0
    /\ transfers > Len(transfersTable)
    /\ outcome = "insufficent funds"

\* C3 (as claimed): when all the committed transfers are transfers of the
\* same amount X > 0 from the same source A, whose balance was b, at most
\* floor(b / X) of them have committed.
C3_AtMostFloor ==
    \A A \in Accounts, X \in Amounts \ {0} :
        (\A i \in DOMAIN transfersTable :
            transfersTable[i].source = A /\ transfersTable[i].amount = X)
        => Len(transfersTable) <= provisioned[A] \div X

\* C3, for destinations other than the source: the bound holds.
C3_DistinctDestination ==
    \A A \in Accounts, X \in Amounts \ {0} :
        (\A i \in DOMAIN transfersTable :
            /\ transfersTable[i].source = A
            /\ transfersTable[i].amount = X
            /\ transfersTable[i].destination # A)
        => Len(transfersTable) <= provisioned[A] \div X

\* C4 (as claimed): a commit of transfer(A, B, X) leaves balance(A) exactly X
\* lower and balance(B) exactly X higher than before, and adds a Transfer
\* record (A, B, X), for every pair A, B the generator can pick.
C4_ExactDebitCredit ==
    [][\A w \in Workers :
         Commits(w) =>
           /\ accounts'[req[w].from] = accounts[req[w].from] - req[w].amount
           /\ accounts'[req[w].to] = accounts[req[w].to] + req[w].amount
           /\ transfersTable'[Len(transfersTable')] = TransferRow(req[w])]_vars

\* C4, for a destination other than the source: the commit debits and
\* credits exactly X; a transfer to oneself leaves the balance as it was.
C4_DistinctAccounts ==
    [][\A w \in Workers :
         Commits(w) =>
           /\ req[w].from # req[w].to =>
                /\ accounts'[req[w].from] = accounts[req[w].from] - req[w].amount
                /\ accounts'[req[w].to] = accounts[req[w].to] + req[w].amount
           /\ req[w].from = req[w].to => accounts' = accounts
           /\ transfersTable'[Len(transfersTable')] = TransferRow(req[w])]_vars

\* C5: a run of transfer(A, B, X) that finds A unblocked and X > balance(A)
\* ends the invocation with "insufficent funds" and changes no balance, no
\* Transfer record and neither counter.
C5_InsufficientFunds ==
    [][\A w \in Workers :
         (/\ ClosureRuns(w)
          /\ blocked_accounts[req[w].from] = NoRow
          /\ req[w].amount > accounts[req[w].from])
         => /\ outcome' = "insufficent funds"
            /\ pc'[w] = "idle"
            /\ UNCHANGED <<accounts, transfersTable, blocked_accounts,
                           transfers, suspiciousTransfers>>]_vars

\* C5 witness: after a committed transfer, an invocation ended with
\* "insufficent funds".
C5_Witness ==
    /\ outcome = "insufficent funds"
    /\ Len(transfersTable) >= 1
    /\ \A a \in Accounts : blocked_accounts[a] = NoRow

\* C6: while a block entry for A is in the store, every run of
\* transfer(A, *, *) ends the invocation with the entry's reason (Blocked)
\* and changes no balance and no Transfer record.
C6_BlockedRefused ==
    [][\A w \in Workers :
         (ClosureRuns(w) /\ blocked_accounts[req[w].from] # NoRow)
         => /\ outcome' = blocked_accounts[req[w].from]
            /\ pc'[w] = "idle"
            /\ UNCHANGED <<accounts, transfersTable, transfers>>]_vars

\* C6 witness: a transfer from the blocked account was refused while the
\* entry is still there, and another account's transfer committed.
C6_Witness ==
    /\ outcome = reason
    /\ suspiciousTransfers >= 1
    /\ blocked_accounts[1] = reason
    /\ Len(transfersTable) >= 1

\* C8 (as claimed): whenever no invocation is in flight, the counter of
\* transfers equals the number of committed transfers.
C8_CounterMatchesCommits == Quiescent => transfers = Len(transfersTable)

\* Worker w's attempt is aborted on a conflict in this step.
Aborts(w) == pc[w] = "commit" /\ pc'[w] = "run"

\* C12: a commit, after any number of aborted attempts, debits the source
\* by X once, credits the destination by X once and adds one Transfer record,
\* on a balance and a block state that are those of the store at the commit;
\* an aborted attempt changes no balance and adds no Transfer record.
C12_RetryTransparent ==
    [][\A w \in Workers :
         /\ Commits(w) =>
              /\ accounts' =
                   [a \in Accounts |->
                      accounts[a] - (IF a = req[w].from THEN req[w].amount ELSE 0)
                                  + (IF a = req[w].to THEN req[w].amount ELSE 0)]
              /\ transfersTable' = Append(transfersTable, TransferRow(req[w]))
              /\ accounts[req[w].from] >= req[w].amount
              /\ blocked_accounts[req[w].from] = NoRow
         /\ Aborts(w) => UNCHANGED <<accounts, transfersTable>>]_vars

\* C12 witness: two invocations were issued and both committed, one of them
\* after an aborted attempt (its closure ran twice).
C12_Witness ==
    /\ Quiescent
    /\ issued = 2
    /\ Len(transfersTable) = 2
    /\ transfers = 3

\* An invocation ends in this step with the block entry's reason (Blocked).
EndsBlocked(w) ==
    /\ ClosureRuns(w)
    /\ pc'[w] = "idle"
    /\ blocked_accounts[req[w].from] # NoRow
    /\ outcome' = blocked_accounts[req[w].from]

\* C15: the counter of suspicious transfers goes up by exactly one in a
\* step in which an invocation ends Blocked, and is left as it was by every
\* other step: a commit, an "insufficent funds", a failed commit, an abort
\* on a conflict.
C15_SuspiciousCounter ==
    [][IF \E w \in Workers : EndsBlocked(w)
       THEN suspiciousTransfers' = suspiciousTransfers + 1
       ELSE suspiciousTransfers' = suspiciousTransfers]_vars

\* C15 witness: of two invocations one ended Blocked and was counted, the
\* other ended with a failed commit and was not.
C15_Witness ==
    /\ Quiescent
    /\ issued = 2
    /\ suspiciousTransfers = 1
    /\ transfers = 1
    /\ outcome = "error"

\* C16 (as claimed): every Transfer record carries an amount > 0.
C16_PositiveAmount ==
    \A i \in DOMAIN transfersTable : transfersTable[i].amount > 0

\* C16, as the code has it: every Transfer record carries an amount the
\* generator can draw, which is 0 or more and less than maxAmount.
C16_DrawnAmount ==
    \A i \in DOMAIN transfersTable :
        minAmount <= transfersTable[i].amount /\ transfersTable[i].amount < maxAmount

\* ------------------------------------------------------------------------
\* The claims about the pipeline (specification SpecIngest)
\* ------------------------------------------------------------------------

\* The summed weight of a source's anomaly records in the store.
AnomalyWeight(source) ==
    Cardinality({i \in DOMAIN anomalies :
                   anomalies[i].source = source /\ anomalies[i].level = warning})
    + 5 * Cardinality({i \in DOMAIN anomalies :
                   anomalies[i].source = source /\ anomalies[i].level = alert})

\* The goroutine of message m runs needToBlockAccount in this step.
Escalates(m) ==
    \E lookup \in LookupErrors(m) :
        CopiesIn(Escalating(m, lookup), tasks') < CopiesIn(Escalating(m, lookup), tasks)

\* The goroutine of message m runs isAnomaly in this step.
Classifies(m) ==
    CopiesIn(Classifying(m), tasks') < CopiesIn(Classifying(m), tasks)

\* C7 (as claimed): when needToBlockAccount runs for a source without a
\* block entry, a summed weight >= 20 leaves a block entry for the source
\* and a summed weight <= 19 leaves none.
C7_Escalation ==
    [][\A m \in Events :
         (Escalates(m) /\ blocked_accounts[m.source] = NoRow)
         => /\ AnomalyWeight(m.source) >= 20 => blocked_accounts'[m.source] # NoRow
            /\ AnomalyWeight(m.source) <= 19 => blocked_accounts'[m.source] = NoRow]_vars

\* The index of the first record that does not parse, or one past the last.
FirstMalformed(records) ==
    IF \A i \in DOMAIN records : ~Unmarshal(records[i]).err
    THEN Len(records) + 1
    ELSE CHOOSE k \in DOMAIN records :
             Unmarshal(records[k]).err /\ \A i \in 1..(k - 1) : ~Unmarshal(records[i]).err

\* What the records before position k ask for: one goroutine each.
Dispatched(records, k) ==
    LET msgs == {Unmarshal(records[i]).m : i \in 1..(k - 1)}
    IN [t \in {Classifying(m) : m \in msgs} |->
           Cardinality({i \in 1..(k - 1) : Unmarshal(records[i]).m = t.m})]

\* C9: a request whose first malformed record is at position k starts the
\* pipeline exactly once for each record before k and for no other, and the
\* endpoint can take a request again.
C9_StopsAtMalformed ==
    /\ [][(~request.serving /\ request'.serving) =>
            LET records == Split(request'.body)
            IN tasks' = tasks (+) Dispatched(records, FirstMalformed(records))]_vars
    /\ [](ENABLED (ReturnHTTP \/ ServeHTTP(<<>>)))

\* C9 witness: after a request was cut short at a malformed record, the
\* endpoint handles a request of a valid record followed by a malformed
\* one, and the valid record's goroutine is in flight.
C9_Witness ==
    /\ aborted
    /\ request.serving
    /\ Len(request.body) = 3
    /\ request.body[1].kind = "json"
    /\ request.body[2] = NL
    /\ request.body[3] = Junk
    /\ BagCardinality(tasks) = 1

Classified ==
    {t \in BagToSet(tasks') :
        t.pc = "escalate" /\ CopiesIn(t, tasks') > CopiesIn(t, tasks)}

\* C11 (as claimed): a classification whose lookup finds no rows returns no
\* error and writes no anomaly record; one whose lookup fails for another
\* reason returns an error.
C11_LookupOutcome ==
    [][\A t \in Classified :
         /\ t.lookup = NoRow => (t.err = "" /\ anomalies' = anomalies)
         /\ t.lookup \notin {"", NoRow} => t.err # ""]_vars

\* C11, as the code has it: the two outcomes are the other way round; no
\* failed lookup writes an anomaly record.
C11_Inverted ==
    [][\A t \in Classified :
         /\ t.lookup = NoRow => t.err = NoRow
         /\ t.lookup \notin {"", NoRow} => t.err = ""
         /\ t.lookup # "" => anomalies' = anomalies]_vars

\* C13: a source without a block entry gets one only in a step in which
\* needToBlockAccount runs for it with a summed weight >= 20; a block entry
\* is never altered, and it is removed only by the expiry of the store, a
\* step that is no operation of the program: it changes nothing of the
\* workload's or the pipeline's state.
C13_BlockTransitions ==
    [][\A a \in Accounts :
         /\ (blocked_accounts[a] = NoRow /\ blocked_accounts'[a] # NoRow)
              => \E m \in Events :
                    /\ Escalates(m)
                    /\ m.source = a
                    /\ AnomalyWeight(a) >= blockThreshold
         /\ (blocked_accounts[a] # NoRow /\ blocked_accounts'[a] # blocked_accounts[a])
              => /\ blocked_accounts'[a] = NoRow
                 /\ UNCHANGED workloadVars
                 /\ UNCHANGED pipelineVars]_vars

\* C13 witness: the pipeline has run to its end for an event of a blocked
\* source, whose block entry is still there for the expiry to remove.
C13_Witness ==
    /\ verdict # NoVerdict
    /\ tasks = EmptyBag
    /\ classified.again # {}
    /\ \A m \in Events : blocked_accounts[m.source] = reason
    /\ ENABLED ExpireBlock(1)

VelocityLevel(a) ==
    IF a < 500 THEN "Ok" ELSE IF a < 1000 THEN "Warning" ELSE "Alert"

\* C18 (as claimed): a classification whose lookup succeeds gives the
\* transfer's amount its level, and writes an anomaly record with the
\* event's source and destination and that level if and only if the level
\* is not Ok.
C18_RecordIffNotOk ==
    [][\A t \in Classified :
         t.lookup = "" =>
           LET level == VelocityLevel(transfersTable[t.m.id].amount)
           IN /\ anomalyLevel(t.m.id) = level
              /\ IF level # "Ok"
                 THEN anomalies' = Append(anomalies,
                                     AnomalyRow(t.m.source, t.m.destination, level))
                 ELSE anomalies' = anomalies]_vars

\* C18, as the code has it: the level is that of the amount, and no
\* classification writes an anomaly record.
C18_NoRecord ==
    [][\A t \in Classified :
         /\ t.lookup = ""
              => anomalyLevel(t.m.id) = VelocityLevel(transfersTable[t.m.id].amount)
         /\ anomalies' = anomalies]_vars

\* The goroutines waiting for their second transaction, for message m.
EscalationsPending(bag, m) ==
    CopiesIn(Escalating(m, ""), bag) + CopiesIn(Escalating(m, NoRow), bag)
        + CopiesIn(Escalating(m, StoreError), bag)

\* C20: for every message m, a goroutine comes to wait for its second
\* transaction only in the step that ends its own first one, and every such
\* step, with or without an error, brings exactly one; the second
\* transaction is run once by each of them, which then ends; and the handler
\* can return whatever goroutines are in flight.
C20_EscalateAfterClassify ==
    /\ [][tasks' = tasks \/ \A m \in Events :
            LET before == EscalationsPending(tasks, m)
                after == EscalationsPending(tasks', m)
            IN /\ after > before =>
                    (Classifies(m) /\ after = before + 1
                     /\ CopiesIn(Classifying(m), tasks') = CopiesIn(Classifying(m), tasks) - 1)
               /\ Classifies(m) => after = before + 1
               /\ after < before =>
                    (/\ after = before - 1
                     /\ BagCardinality(tasks') = BagCardinality(tasks) - 1
                     /\ verdict' # NoVerdict)]_vars
    /\ [](request.serving => ENABLED ReturnHTTP)

\* C20 witness: the handler has returned while a goroutine whose
\* classification ended in an error waits for its escalation, and an
\* escalation has already run.
C20_Witness ==
    /\ ~request.serving
    /\ verdict # NoVerdict
    /\ \E t \in BagToSet(tasks) : t.pc = "escalate" /\ t.err # ""

\* ------------------------------------------------------------------------
\* The claims about the run of main (specification SpecRun)
\* ------------------------------------------------------------------------

\* The loop of callTransfer has an invocation of ExecuteTx in flight.
InFlight(w) == pc[w] \in {"run", "commit"}

\* C14: once the context is done the loop starts no transfer; an invocation
\* in flight is not cut short, it can go on and ends with its own outcome;
\* and the loop, once started, eventually ends and has logged the counters
\* as they finally are.
C14_Cancellation ==
    /\ [][ctxDone => issued' = issued]_vars
    /\ [][\A w \in Workers : InFlight(w) => pc'[w] # "stopped"]_vars
    /\ [](\A w \in Workers :
            (ctxDone /\ InFlight(w))
            => ENABLED (RunClosure(w) \/ CommitStep(w) \/ CommitFail(w)))
    /\ [](pc[1] = "stopped"
            => reported = [transfers |-> transfers,
                           suspiciousTransfers |-> suspiciousTransfers])
    /\ (phase = "running" ~> pc[1] = "stopped")

\* C14 witness: the loop has ended after a transfer that was in flight when
\* the context was done and that committed.
C14_Witness ==
    /\ pc[1] = "stopped"
    /\ ctxDone
    /\ issued = 1
    /\ Len(transfersTable) = 1
    /\ reported = [transfers |-> 1, suspiciousTransfers |-> 0]

\* A turn of the loop of callTransfer loads from accountList in this step.
Lookup(w) == pc[w] = "idle" /\ pc'[w] \in {"run", "not found"}

\* C19: a load from accountList happens only when every index is mapped, to
\* ids that differ; accountList is not modified once run has started; and
\* the loop never ends on a failed load.
C19_DirectoryComplete ==
    /\ [][\A w \in Workers :
            Lookup(w) =>
              /\ \A i \in Indices : accountList[i] # NoAccount
              /\ \A i, j \in Indices : accountList[i] = accountList[j] => i = j]_vars
    /\ [][phase = "running" => accountList' = accountList]_vars
    /\ [](\A w \in Workers : pc[w] # "not found")

\* C19 witness: the goroutines of createAccounts ended out of order, run has
\* started and a transfer between the two accounts has been issued.
C19_Witness ==
    /\ phase = "running"
    /\ accountList[0] = 2
    /\ accountList[1] = 1
    /\ issued >= 1
    /\ req[1].from # req[1].to
    /\ req[1].from # NoAccount

====
